---- MODULE Spec2Model ----
(***************************************************************************)
(* OptimizedDatabaseV1 (src/src/scripts/data/data-hive-v1.ts): a key-value *)
(* store over the host's dynamic properties, with an index of entry keys   *)
(* ("pointers") and chunking of long serialized values.                    *)
(*                                                                         *)
(* Texts are TLA+ strings; Len, \o and SubSeq act on them character by     *)
(* character.  The backend `world` is a function from property keys to     *)
(* texts; a key outside its DOMAIN is an absent property.                  *)
(***************************************************************************)
EXTENDS Integers, Sequences, FiniteSets, TLC

VARIABLES world, name, cachedPointers, lastOp, sets, pending, wait

vars == <<world, name, cachedPointers, lastOp, sets, pending, wait>>

(***************************************************************************)
(* Program constant and the input domains.                                 *)
(***************************************************************************)
maxChunkSize == 30000

RECURSIVE Rep(_, _)
Rep(c, n) ==
    IF n = 0 THEN ""
    ELSE IF n % 2 = 1 THEN c \o Rep(c, n - 1)
    ELSE LET h == Rep(c, n \div 2) IN h \o h

\* JavaScript values: undefined, numbers, strings, booleans, arrays of
\* strings; one record shape.
Undefined == [t |-> "undefined", n |-> 0, s |-> "", a |-> <<>>]
Num(n) == [t |-> "number", n |-> n, s |-> "", a |-> <<>>]
Str(s) == [t |-> "string", n |-> 0, s |-> s, a |-> <<>>]
Bool(b) == [t |-> "boolean", n |-> IF b THEN 1 ELSE 0, s |-> "", a |-> <<>>]
Arr(a) == [t |-> "array", n |-> 0, s |-> "", a |-> a]
\* The value a throwing JSON.parse leaves in place of a result.
SyntaxError == [t |-> "SyntaxError", n |-> 0, s |-> "", a |-> <<>>]

Inst == {1, 2}
Names == {"", "a\"b", "a/b", "rc1"}
Keys == {"pos", "big"}

\* Keys whose entry key meets the index key or a part key of "big", and a
\* key with a slash in it.
CollidingKeys == {"pointers", "big_part0", "a/b"}

AllKeys == Keys \cup CollidingKeys

\* Serialized lengths: 1 (digits only), 4, maxChunkSize (longest direct),
\* maxChunkSize + 1 (two parts), 2 * maxChunkSize + 1 (three parts).
VDigits == Num(2)
VSmall == Str("hi")
VEdge == Str(Rep("e", maxChunkSize - 2))
VTwo == Str(Rep("x", maxChunkSize - 1))
VThree == Str(Rep("y", 2 * maxChunkSize - 1))
Values == {VDigits, VSmall, VEdge, VTwo, VThree}

\* The calls of set that are tried: "pos" takes the short values, "big" the
\* longest direct value and the two chunked ones.
SetInputs ==
    {<<"pos", VDigits>>, <<"pos", VSmall>>,
     <<"big", VEdge>>, <<"big", VTwo>>, <<"big", VThree>>}

(***************************************************************************)
(* Text helpers: String.prototype.includes, /^\d+$/, parseInt, split/pop.  *)
(***************************************************************************)
CharAt(s, i) == SubSeq(s, i, i)

StrIncludes(s, ch) == \E i \in 1..Len(s) : CharAt(s, i) = ch

Digits == {"0", "1", "2", "3", "4", "5", "6", "7", "8", "9"}

IsDigits(s) == Len(s) > 0 /\ \A i \in 1..Len(s) : CharAt(s, i) \in Digits

DigitVal(ch) == CHOOSE d \in 0..9 : ToString(d) = ch

RECURSIVE ParseIntFrom(_, _, _)
ParseIntFrom(s, i, acc) ==
    IF i > Len(s) THEN acc
    ELSE ParseIntFrom(s, i + 1, 10 * acc + DigitVal(CharAt(s, i)))

ParseInt(s) == ParseIntFrom(s, 1, 0)

RECURSIVE LastSlash(_, _)
LastSlash(s, i) ==
    IF i = 0 THEN 0
    ELSE IF CharAt(s, i) = "/" THEN i
    ELSE LastSlash(s, i - 1)

\* ptr.split("/").pop()
LastSegment(s) == SubSeq(s, LastSlash(s, Len(s)) + 1, Len(s))

(***************************************************************************)
(* JSON.  The strings that reach JSON.stringify here (entry keys, values)  *)
(* hold no character JSON escapes, so a string is written between quotes   *)
(* as it is; JSON.parse accepts digits, such quoted strings and arrays of   *)
(* them, and throws on anything else (the empty text, a quote inside the   *)
(* string, ...).                                                           *)
(***************************************************************************)
Quote == "\""

JSONStringify(v) ==
    IF v.t = "number" THEN ToString(v.n)
    ELSE IF v.t = "boolean" THEN (IF v.n = 1 THEN "true" ELSE "false")
    ELSE Quote \o v.s \o Quote

\* No quote and no backslash in s.  A text that repeats one plain character
\* is recognised by one comparison; any other text is read character by
\* character.
Plain(s) ==
    \/ Len(s) > 0 /\ CharAt(s, 1) \notin {Quote, "\\"} /\ s = Rep(CharAt(s, 1), Len(s))
    \/ \A i \in 1..Len(s) : CharAt(s, i) \notin {Quote, "\\"}

RECURSIVE JoinQuoted(_, _)
JoinQuoted(arr, i) ==
    IF i > Len(arr) THEN ""
    ELSE (IF i > 1 THEN "," ELSE "") \o Quote \o arr[i] \o Quote
         \o JoinQuoted(arr, i + 1)

\* JSON.stringify of an array of strings
JSONStringifyArray(arr) == "[" \o JoinQuoted(arr, 1) \o "]"

RECURSIVE NextQuote(_, _)
NextQuote(text, i) ==
    IF i > Len(text) THEN i
    ELSE IF CharAt(text, i) = Quote THEN i
    ELSE NextQuote(text, i + 1)

RECURSIVE ParseItems(_, _, _)
ParseItems(text, i, acc) ==
    IF i > Len(text) \/ CharAt(text, i) # Quote THEN acc
    ELSE LET j == NextQuote(text, i + 1)
             item == SubSeq(text, i + 1, j - 1)
         IN  IF j + 1 <= Len(text) /\ CharAt(text, j + 1) = ","
             THEN ParseItems(text, j + 2, Append(acc, item))
             ELSE Append(acc, item)

\* the items of the text of an array of strings
ArrayItems(text) == ParseItems(text, 2, <<>>)

\* text is the JSON text of an array of plain strings
IsStringArrayText(text) ==
    /\ Len(text) >= 2
    /\ CharAt(text, 1) = "["
    /\ JSONStringifyArray(ArrayItems(text)) = text

JSONParse(text) ==
    IF IsDigits(text)
    THEN IF Len(text) > 1 /\ CharAt(text, 1) = "0" THEN SyntaxError
         ELSE Num(ParseInt(text))
    ELSE IF text = "true" THEN Bool(TRUE)
    ELSE IF text = "false" THEN Bool(FALSE)
    ELSE IF /\ Len(text) >= 2
            /\ CharAt(text, 1) = Quote
            /\ CharAt(text, Len(text)) = Quote
            /\ Plain(SubSeq(text, 2, Len(text) - 1))
    THEN Str(SubSeq(text, 2, Len(text) - 1))
    ELSE IF IsStringArrayText(text) THEN Arr(ArrayItems(text))
    ELSE SyntaxError

(***************************************************************************)
(* The backend: world.getDynamicProperty / world.setDynamicProperty.       *)
(***************************************************************************)
EmptyWorld == [x \in {} |-> ""]

Has(w, k) == k \in DOMAIN w

\* `meta || ""`: the text of the property, "" when it is absent
MetaOr(w, k) == IF Has(w, k) THEN w[k] ELSE ""

\* `!world.getDynamicProperty(k)`: absent or empty
Falsy(w, k) == MetaOr(w, k) = ""

WSet(w, k, text) == [x \in DOMAIN w \cup {k} |-> IF x = k THEN text ELSE w[x]]

\* setDynamicProperty(k, null)
WDel(w, k) == [x \in DOMAIN w \ {k} |-> w[x]]

(***************************************************************************)
(* Keys.                                                                   *)
(***************************************************************************)
PointerKey(nm) == nm \o "/pointers"

DynamicKey(nm, key) == nm \o "/" \o key

PartKey(dynamicKey, i) == dynamicKey \o "_part" \o ToString(i)

ValidNameNoSlash(nm) == nm # "" /\ ~StrIncludes(nm, Quote)

\* the two checks of the constructor
ValidName(nm) ==
    /\ nm # "" /\ Len(nm) # 0
    /\ ~(StrIncludes(nm, Quote) \/ StrIncludes(nm, "/"))

(***************************************************************************)
(* Pointer list.                                                           *)
(***************************************************************************)
\* cachedPointers: null, an array (arr), or whatever else JSON.parse made of
\* the stored index (other; Undefined when the cache is null or an array)
NullPointers == [isNull |-> TRUE, arr |-> <<>>, other |-> Undefined]

Cached(arr) == [isNull |-> FALSE, arr |-> arr, other |-> Undefined]

\* this.cachedPointers = v
CachedValue(v) ==
    IF v.t = "array" THEN Cached(v.a)
    ELSE [isNull |-> FALSE, arr |-> <<>>, other |-> v]

IsArray(c) == c.other = Undefined

Includes(arr, x) == \E i \in 1..Len(arr) : arr[i] = x

\* s.includes(x) on strings
HasSubstring(s, x) ==
    \E i \in 1..(Len(s) - Len(x) + 1) : SubSeq(s, i, i + Len(x) - 1) = x

\* pointers has a method includes: arrays and strings do
HasIncludes(c) == IsArray(c) \/ c.other.t = "string"

\* pointers.includes(x), for an array or a string
PtrIncludes(c, x) ==
    IF IsArray(c) THEN Includes(c.arr, x)
    ELSE c.other.t = "string" /\ HasSubstring(c.other.s, x)

RECURSIVE Filter(_, _)
\* pointers.filter(ptr => ptr !== dynamicKey)
Filter(arr, x) ==
    IF arr = <<>> THEN <<>>
    ELSE (IF Head(arr) = x THEN <<>> ELSE <<Head(arr)>>) \o Filter(Tail(arr), x)

\* the pointers ? JSON.parse(pointers) : [] of _getPointers
ReadIndex(w, nm) ==
    IF Falsy(w, PointerKey(nm)) THEN Arr(<<>>) ELSE JSONParse(w[PointerKey(nm)])

\* _getPointers throws: the cache is null and JSON.parse rejects the index
GetPointersThrows(w, c, nm) == c.isNull /\ ReadIndex(w, nm) = SyntaxError

GetPointersReread(w, c, nm) ==
    IF ReadIndex(w, nm) = SyntaxError THEN c
    ELSE CachedValue(ReadIndex(w, nm))

\* _getPointers: the cache after the call, which is the value returned; the
\* cache stays null when the call throws
GetPointers(w, c, nm) ==
    IF ~c.isNull THEN c
    ELSE IF ReadIndex(w, nm) = SyntaxError THEN c
    ELSE CachedValue(ReadIndex(w, nm))

\* _setPointers: cache and backend after the call
SetPointers(w, nm, pointers) ==
    [w |-> WSet(w, PointerKey(nm), JSONStringifyArray(pointers)),
     c |-> Cached(pointers)]

(***************************************************************************)
(* The operations, as functions of the backend w, the cache c and the      *)
(* database name nm.                                                       *)
(***************************************************************************)
Min(a, b) == IF a < b THEN a ELSE b

ChunkCountFloor(serialized) == Len(serialized) \div maxChunkSize

\* Math.ceil(serialized.length / maxChunkSize)
ChunkCount(serialized) == (Len(serialized) + maxChunkSize - 1) \div maxChunkSize

\* serialized.substring(i * maxChunkSize, (i + 1) * maxChunkSize)
Chunk(serialized, i) ==
    SubSeq(serialized, i * maxChunkSize + 1,
           Min((i + 1) * maxChunkSize, Len(serialized)))

RECURSIVE WriteParts(_, _, _, _, _)
\* the loop of set over i < chunkCount
WriteParts(w, dynamicKey, serialized, i, chunkCount) ==
    IF i >= chunkCount THEN w
    ELSE WriteParts(WSet(w, PartKey(dynamicKey, i), Chunk(serialized, i)),
                    dynamicKey, serialized, i + 1, chunkCount)

RECURSIVE DeleteParts(_, _, _, _)
\* the loop of delete and clear over i < chunkCount
DeleteParts(w, dynamicKey, i, chunkCount) ==
    IF i >= chunkCount THEN w
    ELSE DeleteParts(WDel(w, PartKey(dynamicKey, i)), dynamicKey, i + 1, chunkCount)

\* erase one entry: its parts when the base entry is all digits, then the base
Erase(w, dynamicKey) ==
    LET meta == MetaOr(w, dynamicKey)
        w1 == IF IsDigits(meta)
              THEN DeleteParts(w, dynamicKey, 0, ParseInt(meta))
              ELSE w
    IN  WDel(w1, dynamicKey)

\* what a call leaves: the backend, the cache, and the error it threw if any
Outcome(w, c, err) == [w |-> w, c |-> c, err |-> err]

DeleteCoreUnguarded(w, c, nm, key) ==
    LET c0 == GetPointers(w, c, nm)
        dynamicKey == DynamicKey(nm, key)
        r == SetPointers(Erase(w, dynamicKey), nm, Filter(c0.arr, dynamicKey))
    IN  Outcome(r.w, r.c, "")

\* delete(key).  When the cached value is not an array: a string has
\* includes but no filter, any other value has no includes.
DeleteCore(w, c, nm, key) ==
    LET c0 == GetPointers(w, c, nm)
        pointers == c0.arr
        dynamicKey == DynamicKey(nm, key)
        r == SetPointers(Erase(w, dynamicKey), nm, Filter(pointers, dynamicKey))
    IN  IF GetPointersThrows(w, c, nm) THEN Outcome(w, c, "SyntaxError")
        ELSE IF ~HasIncludes(c0) THEN Outcome(w, c0, "TypeError")
        ELSE IF ~PtrIncludes(c0, dynamicKey) THEN Outcome(w, c0, "")
        ELSE IF ~IsArray(c0) THEN Outcome(Erase(w, dynamicKey), c0, "TypeError")
        ELSE Outcome(r.w, r.c, "")

NeedsPushAlways(pointers, dynamicKey) == TRUE

\* the test before pointers.push in set
NeedsPush(pointers, dynamicKey) == ~Includes(pointers, dynamicKey)

\* the write of set: parts and chunk count, or the text itself
WriteEntry(w, dynamicKey, serialized) ==
    LET chunkCount == ChunkCount(serialized)
    IN  IF chunkCount > 1
        THEN WSet(WriteParts(w, dynamicKey, serialized, 0, chunkCount),
                  dynamicKey, ToString(chunkCount))
        ELSE WSet(w, dynamicKey, serialized)

\* set(key, value).  `pointers` is the array read before delete ran: delete
\* stores a filtered copy in the cache and leaves this array as it was.
\* When the cached value is not an array: a value without includes throws
\* at the first test; a string passes the tests and throws at filter (in
\* delete) or, the entry written, at push.
SetCore(w, c, nm, key, value) ==
    LET serialized == JSONStringify(value)
        c0 == GetPointers(w, c, nm)
        pointers == c0.arr
        dynamicKey == DynamicKey(nm, key)
        dataExists == PtrIncludes(c0, dynamicKey)
        del == IF dataExists THEN DeleteCore(w, c0, nm, key)
               ELSE Outcome(w, c0, "")
        w2 == WriteEntry(del.w, dynamicKey, serialized)
        fin == IF NeedsPush(pointers, dynamicKey)
               THEN SetPointers(w2, nm, Append(pointers, dynamicKey))
               ELSE [w |-> w2, c |-> del.c]
    IN  IF GetPointersThrows(w, c, nm)
        THEN [w |-> w, c |-> c, ret |-> FALSE, err |-> "SyntaxError"]
        ELSE IF ~HasIncludes(c0)
        THEN [w |-> w, c |-> c0, ret |-> FALSE, err |-> "TypeError"]
        ELSE IF del.err # ""
        THEN [w |-> del.w, c |-> del.c, ret |-> FALSE, err |-> del.err]
        ELSE IF ~IsArray(c0)
        THEN [w |-> w2, c |-> c0, ret |-> FALSE, err |-> "TypeError"]
        ELSE [w |-> fin.w, c |-> fin.c, ret |-> dataExists, err |-> ""]

RECURSIVE ConcatParts(_, _, _, _)
\* the loop of get: absent and empty parts add nothing
ConcatParts(w, dynamicKey, i, chunkCount) ==
    IF i >= chunkCount THEN ""
    ELSE MetaOr(w, PartKey(dynamicKey, i))
         \o ConcatParts(w, dynamicKey, i + 1, chunkCount)

\* get(key): the value, Undefined, or SyntaxError when JSON.parse throws
GetCore(w, nm, key) ==
    LET dynamicKey == DynamicKey(nm, key)
        meta == MetaOr(w, dynamicKey)
    IN  IF meta = "" THEN Undefined
        ELSE IF IsDigits(meta)
        THEN JSONParse(ConcatParts(w, dynamicKey, 0, ParseInt(meta)))
        ELSE JSONParse(meta)

RECURSIVE EraseAll(_, _, _)
\* pointers.forEach of clear
EraseAll(w, pointers, i) ==
    IF i > Len(pointers) THEN w
    ELSE EraseAll(Erase(w, pointers[i]), pointers, i + 1)

\* clear(); forEach exists on arrays only
ClearCore(w, c, nm) ==
    LET c0 == GetPointers(w, c, nm)
        r == SetPointers(EraseAll(w, c0.arr, 1), nm, <<>>)
    IN  IF GetPointersThrows(w, c, nm) THEN Outcome(w, c, "SyntaxError")
        ELSE IF ~IsArray(c0) THEN Outcome(w, c0, "TypeError")
        ELSE Outcome(r.w, r.c, "")

\* entries(): the pairs, and the error thrown if any: by _getPointers, by
\* map (arrays only have it), or by a get
EntriesCore(w, c, nm) ==
    LET c0 == GetPointers(w, c, nm)
        ents == [i \in 1..Len(c0.arr) |->
                   <<LastSegment(c0.arr[i]), GetCore(w, nm, LastSegment(c0.arr[i]))>>]
        err == IF GetPointersThrows(w, c, nm) THEN "SyntaxError"
               ELSE IF ~IsArray(c0) THEN "TypeError"
               ELSE IF \E i \in 1..Len(ents) : ents[i][2] = SyntaxError
               THEN "SyntaxError"
               ELSE ""
    IN  [c |-> c0, ents |-> IF err # "" THEN <<>> ELSE ents,
         threw |-> err # "", err |-> err]

(***************************************************************************)
(* State machine.  name[d] = "" : instance d is not constructed.  The      *)
(* outcome r of a call is bound once, by \E r over a one-element set.      *)
(* lastOp records the last call and what it returned; sets[k] counts the   *)
(* set calls on k, those that threw included, since the last delete(k) or  *)
(* clear() that returned (2 stands for 2 or more).  pending is empty while *)
(* whole calls are the steps; wait is the state of waitForChunkLoad.       *)
(***************************************************************************)
\* waitForChunkLoad before it is called
Idle == [pc |-> "idle", attempts |-> 0, timer |-> 0, loaded |-> FALSE,
         waits |-> 0, error |-> FALSE, x |-> 0, z |-> 0]

Op(op, d, arg, val, ret, ents, err) ==
    [op |-> op, d |-> d, arg |-> arg, val |-> val, ret |-> ret,
     ents |-> ents, err |-> err]

Init ==
    /\ world = EmptyWorld
    /\ name = [d \in Inst |-> ""]
    /\ cachedPointers = [d \in Inst |-> NullPointers]
    /\ lastOp = Op("init", 0, "", Undefined, Undefined, <<>>, "")
    /\ sets = [k \in AllKeys |-> 0]
    /\ pending = <<>>
    /\ wait = Idle

ConstructAlwaysInit(d, nm) ==
    IF ~ValidName(nm)
    THEN /\ lastOp' = Op("construct", d, nm, Undefined, Undefined, <<>>,
                         IF nm = "" THEN "Database name cannot be empty."
                         ELSE "Database name cannot include the characters \" or /.")
         /\ UNCHANGED <<world, name, cachedPointers, sets, pending, wait>>
    ELSE /\ name' = [name EXCEPT ![d] = nm]
         /\ cachedPointers' = [cachedPointers EXCEPT ![d] = NullPointers]
         /\ world' = WSet(world, PointerKey(nm), JSONStringifyArray(<<>>))
         /\ lastOp' = Op("construct", d, nm, Undefined, Undefined, <<>>, "")
         /\ UNCHANGED <<sets, pending, wait>>

\* new OptimizedDatabaseV1(nm).  lastOp.err is the message of the Error
\* thrown.  The message of line 25 sets each of the two characters between
\* backquotes; a TLA+ string cannot hold a backquote, so the text recorded
\* for that Error is the message without its four backquotes.
Construct(d, nm) ==
    IF ~ValidName(nm)
    THEN /\ lastOp' = Op("construct", d, nm, Undefined, Undefined, <<>>,
                         IF nm = "" THEN "Database name cannot be empty."
                         ELSE "Database name cannot include the characters \" or /.")
         /\ UNCHANGED <<world, name, cachedPointers, sets, pending, wait>>
    ELSE /\ name' = [name EXCEPT ![d] = nm]
         /\ cachedPointers' = [cachedPointers EXCEPT ![d] = NullPointers]
         /\ world' = IF Falsy(world, PointerKey(nm))
                     THEN WSet(world, PointerKey(nm), JSONStringifyArray(<<>>))
                     ELSE world
         /\ lastOp' = Op("construct", d, nm, Undefined, Undefined, <<>>, "")
         /\ UNCHANGED <<sets, pending, wait>>

Set(d, key, value) ==
    /\ name[d] # ""
    /\ \E r \in {SetCore(world, cachedPointers[d], name[d], key, value)} :
           /\ world' = r.w
           /\ cachedPointers' = [cachedPointers EXCEPT ![d] = r.c]
           /\ lastOp' = Op("set", d, key, value,
                           IF r.err = "" THEN Bool(r.ret) ELSE Undefined,
                           <<>>, r.err)
    /\ sets' = [sets EXCEPT ![key] = Min(@ + 1, 2)]
    /\ UNCHANGED <<name, pending, wait>>

Get(d, key) ==
    /\ name[d] # ""
    /\ LET r == GetCore(world, name[d], key)
       IN  lastOp' = IF r = SyntaxError
                     THEN Op("get", d, key, Undefined, Undefined, <<>>, "SyntaxError")
                     ELSE Op("get", d, key, Undefined, r, <<>>, "")
    /\ UNCHANGED <<world, name, cachedPointers, sets, pending, wait>>

Delete(d, key) ==
    /\ name[d] # ""
    /\ \E r \in {DeleteCore(world, cachedPointers[d], name[d], key)} :
           /\ world' = r.w
           /\ cachedPointers' = [cachedPointers EXCEPT ![d] = r.c]
           /\ lastOp' = Op("delete", d, key, Undefined, Undefined, <<>>, r.err)
           /\ sets' = IF r.err = "" THEN [sets EXCEPT ![key] = 0] ELSE sets
    /\ UNCHANGED <<name, pending, wait>>

Clear(d) ==
    /\ name[d] # ""
    /\ \E r \in {ClearCore(world, cachedPointers[d], name[d])} :
           /\ world' = r.w
           /\ cachedPointers' = [cachedPointers EXCEPT ![d] = r.c]
           /\ lastOp' = Op("clear", d, "", Undefined, Undefined, <<>>, r.err)
           /\ sets' = IF r.err = "" THEN [k \in AllKeys |-> 0] ELSE sets
    /\ UNCHANGED <<name, pending, wait>>

Entries(d) ==
    /\ name[d] # ""
    /\ \E r \in {EntriesCore(world, cachedPointers[d], name[d])} :
           /\ cachedPointers' = [cachedPointers EXCEPT ![d] = r.c]
           /\ lastOp' = Op("entries", d, "", Undefined, Undefined, r.ents, r.err)
    /\ UNCHANGED <<world, name, sets, pending, wait>>

Next ==
    \/ \E nm \in Names : Construct(1, nm)
    \/ \E in \in SetInputs : Set(1, in[1], in[2])
    \/ \E key \in Keys : Get(1, key)
    \/ \E key \in Keys : Delete(1, key)
    \/ Clear(1)
    \/ Entries(1)

Spec == Init /\ [][Next]_vars

(***************************************************************************)
(* Construction alone, over every name of at most MaxNameLen characters    *)
(* drawn from a letter, the quote and the slash.                           *)
(***************************************************************************)
MaxNameLen == 4

NameAlphabet == {"a", Quote, "/"}

RECURSIVE NameStrings(_)
NameStrings(n) ==
    IF n = 0 THEN {""}
    ELSE LET shorter == NameStrings(n - 1)
         IN  shorter \cup {s \o ch : s \in shorter, ch \in NameAlphabet}

NextNames == \E nm \in NameStrings(MaxNameLen) : Construct(1, nm)

SpecNames == Init /\ [][NextNames]_vars

(***************************************************************************)
(* Properties.                                                             *)
(***************************************************************************)
MaxPartIdx == 3

PartIdx == 0..MaxPartIdx

\* the pointer list the instance works with: its cache, else the stored index
Pointers == GetPointers(world, cachedPointers[1], name[1]).arr

\* the list the stored index of database nm holds; empty when there is no
\* index or when it does not hold a list
StoredList(w, nm) == ReadIndex(w, nm).a

\* the pointer list parsed from the stored index entry
Persisted == StoredList(world, name[1])

NoParts(w, dynamicKey) == \A i \in PartIdx : ~Has(w, PartKey(dynamicKey, i))

NoDup(arr) == \A i, j \in 1..Len(arr) : arr[i] = arr[j] => i = j

LastKey == DynamicKey(name[1], lastOp.arg)

\* C1: after set(k, v) returns, k's entry key is in the pointer list and
\* entries() contains the pair (k, v), whether or not k existed before.
\* (Stated for values whose text is not all digits, and for an entries()
\* that returns.)
C1_SetLinksKey ==
    (lastOp.op = "set" /\ ~IsDigits(JSONStringify(lastOp.val))) =>
        LET e == EntriesCore(world, cachedPointers[1], name[1])
        IN  /\ Includes(Pointers, LastKey)
            /\ Includes(Persisted, LastKey)
            /\ e.threw \/ Includes(e.ents, <<lastOp.arg, lastOp.val>>)

\* C2: round trip: get(k) right after set(k, v) returns a value equal to v,
\* for direct and chunked texts, digits-only texts included.
C2_RoundTrip ==
    lastOp.op = "set" => GetCore(world, name[1], lastOp.arg) = lastOp.val

\* C3: delete completeness: once delete(k) has returned, get(k) is absent, k
\* is not among the keys of entries(), and the backend holds neither the base
\* entry of k nor a part of it.
C3_DeleteComplete ==
    lastOp.op = "delete" =>
        LET e == EntriesCore(world, cachedPointers[1], name[1])
        IN  /\ GetCore(world, name[1], lastOp.arg) = Undefined
            /\ \A i \in 1..Len(e.ents) : e.ents[i][1] # lastOp.arg
            /\ ~Has(world, LastKey)
            /\ NoParts(world, LastKey)

\* C4: pointer/store consistency at every operation boundary: an entry key in
\* the pointer list has a stored base entry; an entry key outside it has
\* neither a base entry nor parts.
C4_PointerStoreConsistent ==
    name[1] # "" =>
        \A k \in Keys :
            LET dynamicKey == DynamicKey(name[1], k)
            IN  IF Includes(Persisted, dynamicKey)
                THEN Has(world, dynamicKey)
                ELSE ~Has(world, dynamicKey) /\ NoParts(world, dynamicKey)

\* the base entry of dynamicKey is a chunk count n >= 2 with parts 0..n-1 stored
HoldsChunked(w, dynamicKey, n) ==
    /\ Has(w, dynamicKey) /\ w[dynamicKey] = ToString(n)
    /\ \A i \in 0..(n - 1) : Has(w, PartKey(dynamicKey, i))

\* the least n with length <= n * maxChunkSize
PartsNeeded(text) ==
    CHOOSE n \in 1..(MaxPartIdx + 1) :
        /\ Len(text) <= n * maxChunkSize
        /\ (n - 1) * maxChunkSize < Len(text)

\* C5: overwrite cleans up: when a key holding a chunked value of n parts is
\* overwritten by a value needing fewer parts (or stored directly), the
\* backend afterwards holds no part of the key beyond those of the new value.
C5_OverwriteCleansUp ==
    [][\A n \in 2..(MaxPartIdx + 1) :
          LET dynamicKey == DynamicKey(name[1], lastOp'.arg)
              m == PartsNeeded(JSONStringify(lastOp'.val))
          IN  (lastOp'.op = "set" /\ HoldsChunked(world, dynamicKey, n) /\ m < n) =>
                  \A i \in PartIdx :
                      Has(world', PartKey(dynamicKey, i)) => (m > 1 /\ i < m)]_vars

\* C6: in a run of set calls on one key with no delete or clear of it in
\* between, the first set returns false and every later one returns true.
C6_SetReturnsExisted ==
    lastOp.op = "set" => lastOp.ret = Bool(sets[lastOp.arg] >= 2)

\* C7: clear empties: after clear(), entries() is empty, the stored pointer
\* list is empty, and the backend holds no base entry and no part of any key.
C7_ClearEmpties ==
    lastOp.op = "clear" =>
        LET e == EntriesCore(world, cachedPointers[1], name[1])
        IN  /\ ~e.threw /\ e.ents = <<>>
            /\ world[PointerKey(name[1])] = "[]"
            /\ \A k \in Keys :
                 /\ ~Has(world, DynamicKey(name[1], k))
                 /\ NoParts(world, DynamicKey(name[1], k))

\* C8: the pointer list, cached and stored, never holds an entry key twice.
C8_NoDuplicatePointers ==
    /\ NoDup(cachedPointers[1].arr)
    /\ name[1] # "" => NoDup(Persisted)

\* C8 witness: a key set again and again is in a pointer list of two keys.
C8_Witness ==
    \E k \in Keys :
        /\ sets[k] = 2
        /\ Includes(Persisted, DynamicKey(name[1], k))
        /\ Len(Persisted) = 2
        /\ ~cachedPointers[1].isNull

RECURSIVE PartsText(_, _, _, _)
PartsText(w, dynamicKey, i, n) ==
    IF i >= n THEN ""
    ELSE w[PartKey(dynamicKey, i)] \o PartsText(w, dynamicKey, i + 1, n)

\* C9: layout written by set: a text of at most maxChunkSize characters is
\* stored as it is under the entry key and no part is written; a longer one
\* is stored as the decimal count n = ceil(length / maxChunkSize) under the
\* entry key and as parts 0..n-1, each of at most maxChunkSize characters,
\* whose concatenation in index order is the text.
C9_ChunkLayout ==
    [][lastOp'.op = "set" =>
          LET dynamicKey == DynamicKey(name[1], lastOp'.arg)
              text == JSONStringify(lastOp'.val)
              n == PartsNeeded(text)
          IN  IF Len(text) <= maxChunkSize
              THEN /\ Has(world', dynamicKey) /\ world'[dynamicKey] = text
                   /\ \A i \in PartIdx :
                        Has(world', PartKey(dynamicKey, i)) =>
                            /\ Has(world, PartKey(dynamicKey, i))
                            /\ world'[PartKey(dynamicKey, i)] = world[PartKey(dynamicKey, i)]
              ELSE /\ Has(world', dynamicKey) /\ world'[dynamicKey] = ToString(n)
                   /\ \A i \in 0..(n - 1) :
                        /\ Has(world', PartKey(dynamicKey, i))
                        /\ Len(world'[PartKey(dynamicKey, i)]) <= maxChunkSize
                   /\ PartsText(world', dynamicKey, 0, n) = text]_vars

\* C9 witness: a text of three parts has been set, the last part shorter.
C9_Witness ==
    /\ lastOp.op = "set"
    /\ Len(JSONStringify(lastOp.val)) > 2 * maxChunkSize
    /\ Has(world, PartKey(LastKey, 2))
    /\ Len(world[PartKey(LastKey, 2)]) < maxChunkSize

\* C10: constructing with a name that is empty or holds a quote or a slash
\* fails, writes nothing and yields no object; any other name succeeds.
C10_NameValidation ==
    [][lastOp'.op = "construct" =>
          LET nm == lastOp'.arg
              bad == nm = "" \/ \E i \in 1..Len(nm) : SubSeq(nm, i, i) \in {Quote, "/"}
          IN  IF bad
              THEN /\ lastOp'.err # ""
                   /\ world' = world /\ name' = name
                   /\ cachedPointers' = cachedPointers
              ELSE /\ lastOp'.err = ""
                   /\ name'[1] = nm
                   /\ Has(world', PointerKey(nm))]_vars

\* C10 witness: a name with a slash was refused after a database was built.
C10_Witness ==
    /\ lastOp.op = "construct" /\ lastOp.err # ""
    /\ \E i \in 1..Len(lastOp.arg) : SubSeq(lastOp.arg, i, i) = "/"
    /\ name[1] # ""
(***************************************************************************)
(* One instance, constructed anew at any time, over keys that meet the     *)
(* index key or a part key, and a key with a slash.                        *)
(***************************************************************************)
KeysTried == CollidingKeys \cup {"big"}

KeyInputs ==
    {<<"big", VTwo>>, <<"big_part0", VSmall>>, <<"pointers", VSmall>>,
     <<"pointers", VDigits>>,
     <<"a/b", VSmall>>}

NextKeys ==
    \/ Construct(1, "rc1")
    \/ \E in \in KeyInputs : Set(1, in[1], in[2])
    \/ \E key \in KeysTried : Get(1, key)
    \/ \E key \in KeysTried : Delete(1, key)
    \/ Clear(1)
    \/ Entries(1)

SpecKeys == Init /\ [][NextKeys]_vars

\* C11: get(k) of a key never set, or not set since its last delete or clear,
\* returns absent and raises no error, for every key string k.
C11_GetAbsent ==
    (lastOp.op = "get" /\ sets[lastOp.arg] = 0) =>
        lastOp.ret = Undefined /\ lastOp.err = ""

\* the key a pointer was made from: what follows the name and its slash
OrigKey(nm, ptr) == SubSeq(ptr, Len(nm) + 2, Len(ptr))

\* C12: entries() emits one pair per entry key of the pointer list, in the
\* order of the list, each with the original key k and the value get(k)
\* returns.  (Stated for an entries() that returns.)
C12_EntriesPairs ==
    (lastOp.op = "entries" /\ lastOp.err = "") =>
        LET arr == cachedPointers[1].arr
        IN  /\ Len(lastOp.ents) = Len(arr)
            /\ \A i \in 1..Len(arr) :
                 lastOp.ents[i] = <<OrigKey(name[1], arr[i]),
                                    GetCore(world, name[1], OrigKey(name[1], arr[i]))>>

\* C13: key isolation: for distinct keys k and k2, set(k, v) and delete(k)
\* change neither get(k2), nor whether k2 is in the pointer list, nor the
\* stored index apart from k's own membership.
C13_KeyIsolation ==
    [][lastOp'.op \in {"set", "delete"} =>
          LET dynamicKey == DynamicKey(name[1], lastOp'.arg)
              before == GetPointers(world, cachedPointers[1], name[1]).arr
              after == GetPointers(world', cachedPointers'[1], name[1]).arr
          IN  /\ \A k2 \in KeysTried \ {lastOp'.arg} :
                   /\ GetCore(world', name[1], k2) = GetCore(world, name[1], k2)
                   /\ Includes(after, DynamicKey(name[1], k2))
                        <=> Includes(before, DynamicKey(name[1], k2))
              /\ ReadIndex(world', name[1]).t = ReadIndex(world, name[1]).t
              /\ Filter(StoredList(world', name[1]), dynamicKey)
                   = Filter(StoredList(world, name[1]), dynamicKey)]_vars

\* C14: write-through cache: at every operation boundary of a single
\* instance that alone writes its backend, cachedPointers, when set, is the
\* list parsed from the stored index entry.
C14_CacheCoherent ==
    ~cachedPointers[1].isNull =>
        /\ Has(world, PointerKey(name[1]))
        /\ IsArray(cachedPointers[1])
        /\ ReadIndex(world, name[1]) = Arr(cachedPointers[1].arr)

\* C15: delete(k) of a key whose entry key is not in the pointer list is a
\* no-op: it writes nothing to the backend and leaves the cached and the
\* stored pointer list as they were.
C15_DeleteAbsentNoOp ==
    [][(/\ lastOp'.op = "delete"
        /\ ~Includes(GetPointers(world, cachedPointers[1], name[1]).arr,
                     DynamicKey(name[1], lastOp'.arg))) =>
          /\ world' = world
          /\ ~cachedPointers[1].isNull => cachedPointers'[1] = cachedPointers[1]
          /\ GetPointers(world', cachedPointers'[1], name[1]).arr
               = GetPointers(world, cachedPointers[1], name[1]).arr]_vars

\* C15 witness: delete was called on a key that is stored but not in the
\* pointer list, next to a key that is in it.
C15_Witness ==
    /\ lastOp.op = "delete"
    /\ Has(world, LastKey)
    /\ ~Includes(Persisted, LastKey)
    /\ Len(Persisted) = 1

\* C16: a successful construction writes to the backend only when no index
\* entry exists, and then writes the empty list; an existing index entry,
\* empty or not, and every stored entry are left as they are; the index
\* entry exists afterwards.
C16_ConstructInit ==
    [][(lastOp'.op = "construct" /\ lastOp'.err = "") =>
          LET pointerKey == PointerKey(lastOp'.arg)
          IN  /\ IF Has(world, pointerKey)
                 THEN world' = world
                 ELSE world' = WSet(world, pointerKey, "[]")
              /\ Has(world', pointerKey)]_vars

\* C16 witness: a database was constructed over a stored index of one key.
C16_Witness ==
    /\ lastOp.op = "construct" /\ lastOp.err = ""
    /\ cachedPointers[1].isNull
    /\ Len(Persisted) = 1
    /\ Has(world, Persisted[1])

(***************************************************************************)
(* Two instances of one name on one backend; their calls interleave whole. *)
(* Instance 1 stores the string "hi" and instance 2 stores true, so the    *)
(* stored text of an entry tells which instance stored it last.            *)
(***************************************************************************)
MultiValue(d) == IF d = 1 THEN VSmall ELSE Bool(TRUE)

NextMulti ==
    \E d \in Inst :
        \/ Construct(d, "rc1")
        \/ \E key \in Keys : Set(d, key, MultiValue(d))
        \/ \E key \in Keys : Get(d, key)
        \/ \E key \in Keys : Delete(d, key)
        \/ Clear(d)
        \/ Entries(d)

SpecMulti == Init /\ [][NextMulti]_vars

\* C17: an instance whose cache is set never re-reads the index: a call of
\* instance d made with its cache set brings into the cache no entry key
\* other than the one the call stores, the index it writes is its own cache,
\* and its entries() has one pair per cached pointer, whatever the other
\* instance has persisted meanwhile.
C17_CacheNeverReread ==
    [][\A d \in Inst :
          (/\ lastOp'.d = d
           /\ lastOp'.op \in {"set", "get", "delete", "clear", "entries"}
           /\ ~cachedPointers[d].isNull) =>
             LET old == cachedPointers[d].arr
                 new == cachedPointers'[d].arr
                 pointerKey == PointerKey(name[d])
             IN  /\ ~cachedPointers'[d].isNull
                 /\ \A i \in 1..Len(new) :
                       \/ new[i] = DynamicKey(name[d], lastOp'.arg)
                       \/ Includes(old, new[i])
                 /\ world'[pointerKey] # world[pointerKey] =>
                       StoredList(world', name[d]) = new
                 /\ (lastOp'.op = "entries" /\ lastOp'.err = "") =>
                       Len(lastOp'.ents) = Len(old)]_vars

\* C17 witness: instance 1 has just written; the cached lists differ; a key
\* that instance 2 stored, never deleted since, is still stored but is
\* neither in the persisted pointer list nor in the entries() of instance 1.
C17_Witness ==
    /\ lastOp.op = "set" /\ lastOp.d = 1
    /\ ~cachedPointers[1].isNull /\ ~cachedPointers[2].isNull
    /\ cachedPointers[1].arr # cachedPointers[2].arr
    /\ \E key \in Keys :
          LET dynamicKey == DynamicKey("rc1", key)
              e == EntriesCore(world, cachedPointers[1], name[1])
          IN  /\ sets[key] = 1
              /\ Has(world, dynamicKey)
              /\ world[dynamicKey] = JSONStringify(MultiValue(2))
              /\ Includes(cachedPointers[2].arr, dynamicKey)
              /\ ~Includes(Persisted, dynamicKey)
              /\ ~e.threw
              /\ \A i \in 1..Len(e.ents) : e.ents[i][1] # key

(***************************************************************************)
(* Interrupted execution.  A call of set, delete or clear is split into    *)
(* its backend writes, in the order the code issues them; pending holds    *)
(* the writes the running call has still to make, and last the return of   *)
(* the call.  Each write is one step.  Stop ends the process between two   *)
(* steps: the instance and its cache are gone, the backend stays.          *)
(***************************************************************************)
\* world.setDynamicProperty(key, val)
Wr(key, val) ==
    [kind |-> "write", key |-> key, val |-> val, del |-> FALSE,
     op |-> "", c |-> NullPointers, ret |-> Undefined, err |-> ""]

\* world.setDynamicProperty(key, null)
Rm(key) ==
    [kind |-> "write", key |-> key, val |-> "", del |-> TRUE,
     op |-> "", c |-> NullPointers, ret |-> Undefined, err |-> ""]

\* the end of the call: the cache it leaves and the value it returns, or
\* the error it throws
Ret(op, c, ret, err) ==
    [kind |-> "return", key |-> "", val |-> "", del |-> FALSE,
     op |-> op, c |-> c, ret |-> IF err = "" THEN ret ELSE Undefined,
     err |-> err]

ApplyWrite(w, h) == IF h.del THEN WDel(w, h.key) ELSE WSet(w, h.key, h.val)

RECURSIVE ApplyWrites(_, _)
ApplyWrites(w, ws) ==
    IF ws = <<>> THEN w ELSE ApplyWrites(ApplyWrite(w, Head(ws)), Tail(ws))

\* the writes of erasing one entry: parts when the base is all digits, base
EraseWrites(w, dynamicKey) ==
    LET meta == MetaOr(w, dynamicKey)
    IN  (IF IsDigits(meta)
         THEN [i \in 1..ParseInt(meta) |-> Rm(PartKey(dynamicKey, i - 1))]
         ELSE <<>>) \o <<Rm(dynamicKey)>>

DeleteWritesIndexFirst(w, nm, c0, dynamicKey) ==
    IF PtrIncludes(c0, dynamicKey)
    THEN <<Wr(PointerKey(nm), JSONStringifyArray(Filter(c0.arr, dynamicKey)))>>
         \o EraseWrites(w, dynamicKey)
    ELSE <<>>

\* the writes of delete, c0 being what _getPointers returned: the erasure,
\* then the index without the entry key (filter throws on a string)
DeleteWrites(w, nm, c0, dynamicKey) ==
    IF PtrIncludes(c0, dynamicKey)
    THEN EraseWrites(w, dynamicKey)
         \o (IF IsArray(c0)
             THEN <<Wr(PointerKey(nm),
                       JSONStringifyArray(Filter(c0.arr, dynamicKey)))>>
             ELSE <<>>)
    ELSE <<>>

\* the writes of set: those of delete when the key exists, the parts and the
\* chunk count or the text itself, then the index with the entry key pushed
\* (on a string the delete throws at filter, or the push throws; a value
\* without includes throws before any write)
SetWrites(w, nm, c0, dynamicKey, serialized) ==
    LET chunkCount == ChunkCount(serialized)
        pointers == c0.arr
    IN  IF ~HasIncludes(c0) THEN <<>>
        ELSE IF ~IsArray(c0) /\ PtrIncludes(c0, dynamicKey)
        THEN DeleteWrites(w, nm, c0, dynamicKey)
        ELSE DeleteWrites(w, nm, c0, dynamicKey)
             \o (IF chunkCount > 1
                 THEN [i \in 1..chunkCount |->
                          Wr(PartKey(dynamicKey, i - 1), Chunk(serialized, i - 1))]
                      \o <<Wr(dynamicKey, ToString(chunkCount))>>
                 ELSE <<Wr(dynamicKey, serialized)>>)
             \o (IF IsArray(c0) /\ NeedsPush(pointers, dynamicKey)
                 THEN <<Wr(PointerKey(nm),
                           JSONStringifyArray(Append(pointers, dynamicKey)))>>
                 ELSE <<>>)

RECURSIVE EraseAllWrites(_, _, _)
\* the writes of pointers.forEach of clear; each erasure reads the backend
\* the erasures before it have left
EraseAllWrites(w, pointers, i) ==
    IF i > Len(pointers) THEN <<>>
    ELSE LET ws == EraseWrites(w, pointers[i])
         IN  ws \o EraseAllWrites(ApplyWrites(w, ws), pointers, i + 1)

\* the writes of clear: every erasure, then the empty index
\* (forEach throws when c0 is not an array)
ClearWrites(w, nm, c0) ==
    IF IsArray(c0)
    THEN EraseAllWrites(w, c0.arr, 1)
         \o <<Wr(PointerKey(nm), JSONStringifyArray(<<>>))>>
    ELSE <<>>

BeginSet(d, key, value) ==
    /\ name[d] # "" /\ pending = <<>>
    /\ LET c0 == GetPointers(world, cachedPointers[d], name[d])
           r == SetCore(world, cachedPointers[d], name[d], key, value)
       IN  pending' = (IF GetPointersThrows(world, cachedPointers[d], name[d])
                       THEN <<>>
                       ELSE SetWrites(world, name[d], c0, DynamicKey(name[d], key),
                                      JSONStringify(value)))
                      \o <<Ret("set", r.c, Bool(r.ret), r.err)>>
    /\ lastOp' = Op("begin set", d, key, value, Undefined, <<>>, "")
    /\ UNCHANGED <<world, name, cachedPointers, sets, wait>>

BeginDelete(d, key) ==
    /\ name[d] # "" /\ pending = <<>>
    /\ LET c0 == GetPointers(world, cachedPointers[d], name[d])
           r == DeleteCore(world, cachedPointers[d], name[d], key)
       IN  pending' = (IF GetPointersThrows(world, cachedPointers[d], name[d])
                       THEN <<>>
                       ELSE DeleteWrites(world, name[d], c0,
                                         DynamicKey(name[d], key)))
                      \o <<Ret("delete", r.c, Undefined, r.err)>>
    /\ lastOp' = Op("begin delete", d, key, Undefined, Undefined, <<>>, "")
    /\ UNCHANGED <<world, name, cachedPointers, sets, wait>>

BeginClear(d) ==
    /\ name[d] # "" /\ pending = <<>>
    /\ LET c0 == GetPointers(world, cachedPointers[d], name[d])
           r == ClearCore(world, cachedPointers[d], name[d])
       IN  pending' = (IF GetPointersThrows(world, cachedPointers[d], name[d])
                       THEN <<>>
                       ELSE ClearWrites(world, name[d], c0))
                      \o <<Ret("clear", r.c, Undefined, r.err)>>
    /\ lastOp' = Op("begin clear", d, "", Undefined, Undefined, <<>>, "")
    /\ UNCHANGED <<world, name, cachedPointers, sets, wait>>

\* the next write of the running call
StepWrite ==
    /\ pending # <<>> /\ Head(pending).kind = "write"
    /\ world' = ApplyWrite(world, Head(pending))
    /\ pending' = Tail(pending)
    /\ UNCHANGED <<name, cachedPointers, lastOp, sets, wait>>

\* the running call returns or throws
StepReturn ==
    /\ pending # <<>> /\ Head(pending).kind = "return"
    /\ LET h == Head(pending)
       IN  /\ cachedPointers' = [cachedPointers EXCEPT ![lastOp.d] = h.c]
           /\ lastOp' = Op(h.op, lastOp.d, lastOp.arg, lastOp.val, h.ret, <<>>,
                           h.err)
           /\ sets' = IF h.op = "set"
                      THEN [sets EXCEPT ![lastOp.arg] = Min(@ + 1, 2)]
                      ELSE IF h.err # "" THEN sets
                      ELSE IF h.op = "delete"
                      THEN [sets EXCEPT ![lastOp.arg] = 0]
                      ELSE [k \in AllKeys |-> 0]
    /\ pending' = <<>>
    /\ UNCHANGED <<world, name, wait>>

\* the process is killed while a call is running
Stop ==
    /\ pending # <<>>
    /\ pending' = <<>>
    /\ name' = [d \in Inst |-> ""]
    /\ cachedPointers' = [d \in Inst |-> NullPointers]
    /\ lastOp' = Op("stop", lastOp.d, lastOp.arg, lastOp.val, Undefined, <<>>,
                    lastOp.op)
    /\ UNCHANGED <<world, sets, wait>>

\* a new process constructs the database over the backend it finds
Restart ==
    /\ name[1] = "" /\ pending = <<>>
    /\ Construct(1, "rc1")

StepInputs == {<<"pos", VSmall>>, <<"big", VTwo>>}

NextSteps ==
    \/ Restart
    \/ \E in \in StepInputs : BeginSet(1, in[1], in[2])
    \/ \E key \in Keys : BeginDelete(1, key)
    \/ BeginClear(1)
    \/ StepWrite
    \/ StepReturn
    \/ Stop

SpecSteps == Init /\ [][NextSteps]_vars

\* the pointer list stored under database name rc1
Index == StoredList(world, "rc1")

\* C18: the order of the writes that makes both inconsistencies possible:
\* once the running call has written the index, it writes nothing more,
\* except for a set of an existing key, whose index write is the removal
\* made by its delete.  So delete and clear erase entries before they
\* rewrite the index, and set writes parts and marker before it adds the
\* pointer.
C18_WriteOrder ==
    \A i \in 1..Len(pending) :
        (pending[i].kind = "write" /\ pending[i].key = PointerKey(name[1])) =>
            \A j \in (i + 1)..Len(pending) :
                \/ pending[j].kind = "return"
                \/ /\ lastOp.op = "begin set"
                   /\ ~Includes(JSONParse(pending[i].val).a, LastKey)

\* C18 witness: after a stop, the backend holds at once a dangling pointer
\* (pos is in the stored index, its base entry is gone) and orphaned parts
\* (a part of big is stored, no set(big) has returned, big is not in the
\* stored index).
C18_Witness ==
    /\ lastOp.op = "stop"
    /\ Includes(Index, DynamicKey("rc1", "pos"))
    /\ ~Has(world, DynamicKey("rc1", "pos"))
    /\ Has(world, PartKey(DynamicKey("rc1", "big"), 0))
    /\ ~Has(world, DynamicKey("rc1", "big"))
    /\ sets["big"] = 0
    /\ ~Includes(Index, DynamicKey("rc1", "big"))

(***************************************************************************)
(* waitForChunkLoad (src/src/scripts/functions/waitForChunkLoad.ts).       *)
(* wait.loaded is what isChunkLoaded(position, player) answers now; the    *)
(* host loads and unloads the chunk as it pleases.  The function runs      *)
(* without interruption from one await to the next: the loop test, the     *)
(* scheduling of the timeout, and after the loop the test of attempts,     *)
(* are one step.  wait.waits counts the timeouts the call has scheduled,   *)
(* wait.timer the ticks left before the scheduled timeout fires, and       *)
(* wait.error tells whether the call has logged "Chunk failed to load".    *)
(***************************************************************************)
MaxAttempts == 10

WaitTicks == 5

Positions == {[x |-> 0, z |-> 0], [x |-> 16, z |-> -16]}

ContinueIgnoresLoaded(w) == w.attempts > 0

\* the loop condition: !isChunkLoaded(position, player) && attempts > 0
Continue(w) == ~w.loaded /\ w.attempts > 0

\* the loop test and what follows it up to the next await or the return
LoopTest(w) ==
    IF Continue(w)
    THEN [w EXCEPT !.pc = "waiting", !.timer = WaitTicks, !.waits = @ + 1]
    ELSE [w EXCEPT !.pc = "done", !.error = (w.attempts = 0)]

\* waitForChunkLoad(position, player) is called
CallWait(position) ==
    /\ wait.pc \in {"idle", "done"}
    /\ wait' = LoopTest([pc |-> "running", attempts |-> MaxAttempts, timer |-> 0,
                         loaded |-> wait.loaded, waits |-> 0, error |-> FALSE,
                         x |-> position.x, z |-> position.z])
    /\ UNCHANGED <<world, name, cachedPointers, lastOp, sets, pending>>

\* one game tick passes while the timeout is pending
Tick ==
    /\ wait.pc = "waiting" /\ wait.timer > 0
    /\ wait' = [wait EXCEPT !.timer = @ - 1]
    /\ UNCHANGED <<world, name, cachedPointers, lastOp, sets, pending>>

\* the timeout fires: the promise resolves, attempts--, the loop tests again
TimeoutFires ==
    /\ wait.pc = "waiting" /\ wait.timer = 0
    /\ wait' = LoopTest([wait EXCEPT !.attempts = @ - 1])
    /\ UNCHANGED <<world, name, cachedPointers, lastOp, sets, pending>>

\* the host loads the chunk
ChunkLoads ==
    /\ ~wait.loaded
    /\ wait' = [wait EXCEPT !.loaded = TRUE]
    /\ UNCHANGED <<world, name, cachedPointers, lastOp, sets, pending>>

\* the host unloads the chunk
ChunkUnloads ==
    /\ wait.loaded
    /\ wait' = [wait EXCEPT !.loaded = FALSE]
    /\ UNCHANGED <<world, name, cachedPointers, lastOp, sets, pending>>

NextWait ==
    \/ \E position \in Positions : CallWait(position)
    \/ Tick
    \/ TimeoutFires
    \/ ChunkLoads
    \/ ChunkUnloads

SpecWait == Init /\ [][NextWait]_vars

\* every scheduled timeout eventually fires: ticks pass, and a timeout whose
\* ticks have passed runs
SpecWaitFair == SpecWait /\ WF_vars(Tick) /\ WF_vars(TimeoutFires)

\* C19: the call logs "Chunk failed to load" only if the chunk is still not
\* loaded when it finishes waiting; a chunk that became loaded during a
\* wait, the last one included, is not reported as failed.
C19_ErrorOnlyIfNotLoaded ==
    [][(wait.pc # "done" /\ wait'.pc = "done" /\ wait'.error) =>
          ~wait.loaded]_vars

\* C20: the call always completes when timeouts fire: a pending wait leads
\* to the return; a call schedules at most MaxAttempts waits, each of
\* WaitTicks ticks; a test that observes the chunk loaded ends the call,
\* and a call entered with the chunk loaded schedules no wait.
C20_Completes ==
    /\ [](wait.waits <= MaxAttempts /\ wait.timer <= WaitTicks)
    /\ [][/\ (wait'.pc = "waiting" /\ wait'.waits # wait.waits) =>
               (wait'.timer = WaitTicks /\ ~wait.loaded)
          /\ (wait.pc \in {"idle", "done"} /\ wait'.pc # wait.pc
                 /\ wait.loaded) =>
               (wait'.pc = "done" /\ wait'.waits = 0)
          /\ (wait.pc = "waiting" /\ wait.timer = 0 /\ wait.loaded
                 /\ wait'.attempts # wait.attempts) =>
               wait'.pc = "done"]_vars
    /\ (wait.pc = "waiting") ~> (wait.pc = "done")

\* C20 witness: a call has returned after all its MaxAttempts waits.
C20_Witness ==
    wait.pc = "done" /\ wait.waits = MaxAttempts /\ wait.attempts = 0
====
